---- MODULE Spec2Model ----
(***************************************************************************)
(* Model of the GDM webhook relay (server.py): payload extraction, LOG     *)
(* telemetry splitting, CSV telemetry store, de-dup and Telegram delivery  *)
(* with retries.                                                           *)
(*                                                                         *)
(* Text is a sequence of tokens.  A token is a word ("A", "B"), a          *)
(* whitespace character (" ", "\n"), the telemetry marker "LOG:", a JSON   *)
(* document ("{SIG}", "{m=A}", ...) or a form-encoded field ("message=A"). *)
(* json.loads on a token is the table JsonLen/JsonGet below.  Time is     *)
(* counted in ticks of the wall clock.                                     *)
(***************************************************************************)
EXTENDS Integers, Sequences, FiniteSets, TLC

VARIABLES
    TG_RETRIES,     \* GDM_TG_RETRIES, read once from the environment
    credentials,    \* TRUE iff TELEGRAM_BOT_TOKEN and TELEGRAM_CHAT_ID are set
    now,            \* wall clock, time.time() / _utc_now()
    _dedup,         \* the de-dup dict, in insertion order: <<[h, ts], ...>>
    files,          \* LOG_DIR: path -> rows written (header first)
    pc,             \* position of the request handler
    data,           \* request.get_data(as_text=True) of the current request
    raw_body,       \* webhook: raw_body
    log_obj,        \* webhook: log_obj ("None" or a JSON token)
    clean_body,     \* webhook: clean_body
    retries,        \* send_telegram_message: retries
    attempt,        \* send_telegram_message: attempt
    last_detail,    \* send_telegram_message: last_detail
    response,       \* what webhook returned: [status, kind, attempts, detail]
    trace,          \* effects of the current request, in order
    io_failed,      \* append_log_row of the current request raised
    snap,           \* _dedup and files when the request arrived
    nreq,           \* requests handled so far
    dedup_now,      \* _dedup_allows: now, as read by the current request
    asked,          \* texts earlier requests passed to _dedup_allows
    delivered_at,   \* text -> dedup_now of the last earlier delivered request
    postFailed,     \* some endpoint call did not return 200 so far
    hist,           \* what earlier requests did to the reservations of texts
    workers,        \* the concurrent workers: what each one is in the middle of
    pin, pout       \* inputs and result of the pure-function specifications

vars == <<TG_RETRIES, credentials, now, _dedup, files, pc, data, raw_body,
          log_obj, clean_body, retries, attempt, last_detail, response,
          trace, io_failed, snap, nreq, dedup_now, asked, delivered_at,
          postFailed, hist, workers, pin, pout>>

(***************************************************************************)
(* Bounds of the model                                                     *)
(***************************************************************************)
MaxTime == 4          \* the clock stops advancing here
MaxRequests == 2      \* requests handled in one behaviour of Spec
MaxSignals == 3       \* requests handled in one behaviour of SpecSignal
MaxRetriesCfg == 2    \* largest GDM_TG_RETRIES tried
MaxLines == 3         \* lines of an alert in SpecSplit
MaxTokens == 2        \* tokens of a request body in SpecExtract
MaxCap == 3           \* largest GDM_DEDUP_MAX_KEYS tried in SpecDedup

(***************************************************************************)
(* Configuration, in ticks                                                 *)
(***************************************************************************)
READY_AFTER_SEC == 2
TG_BACKOFF_SEC == 1
DEDUP_WINDOW_SEC == 2
DEDUP_MAX_KEYS == 1
SERVER_START_TS == 0
\* calendar of the model: the clock starts on 1 January of BaseYear
BaseYear == 2025
TicksPerDay == 3

MARKER == "LOG:"
NL == "\n"

(***************************************************************************)
(* str helpers                                                             *)
(***************************************************************************)
IsSpace(t) == t \in {" ", NL}

RECURSIVE lstrip(_)
lstrip(s) == IF s # <<>> /\ IsSpace(Head(s)) THEN lstrip(Tail(s)) ELSE s

RECURSIVE rstrip(_)
rstrip(s) ==
    IF s # <<>> /\ IsSpace(s[Len(s)]) THEN rstrip(SubSeq(s, 1, Len(s) - 1))
    ELSE s

strip(s) == lstrip(rstrip(s))

\* str.find: index of the first t in s, 0 when there is none
find(s, t) ==
    IF \E i \in 1..Len(s) : s[i] = t
    THEN CHOOSE i \in 1..Len(s) : s[i] = t /\ \A j \in 1..(i - 1) : s[j] # t
    ELSE 0

\* str.splitlines: split at line ends; a final line end opens no new line
RECURSIVE splitlines(_)
splitlines(s) ==
    IF s = <<>> THEN <<>>
    ELSE LET i == find(s, NL)
         IN IF i = 0 THEN <<s>>
            ELSE <<SubSeq(s, 1, i - 1)>> \o splitlines(SubSeq(s, i + 1, Len(s)))

\* "\n".join(lines)
RECURSIVE join(_)
join(lines) ==
    IF lines = <<>> THEN <<>>
    ELSE IF Len(lines) = 1 THEN lines[1]
    ELSE lines[1] \o <<NL>> \o join(Tail(lines))

startswith(s, t) == s # <<>> /\ s[1] = t

(***************************************************************************)
(* json.loads, as a table over the JSON documents of the model             *)
(***************************************************************************)
NoVal == [has |-> FALSE, isstr |-> FALSE, s |-> <<>>]
StrVal(s) == [has |-> TRUE, isstr |-> TRUE, s |-> s]
NumVal == [has |-> TRUE, isstr |-> FALSE, s |-> <<>>]

\* documents that are objects
DictTokens == {"{SIG}", "{HB15}", "{hb15}", "{}", "{m=A}", "{m=,t=B}",
               "{t=B}", "{b=A}", "{m=7,t=B}", "{m= A LOG:{HB15}}"}
\* well-formed documents that are not objects
OtherJsonTokens == {"[1]"}
\* text that starts with "{" and ends with "}" without being JSON
BadJsonTokens == {"{bad}"}
JsonTokens == DictTokens \cup OtherJsonTokens

\* len(obj) of an object
JsonLen(tok) ==
    CASE tok = "{}" -> 0
      [] tok \in {"{m=,t=B}", "{m=7,t=B}"} -> 2
      [] OTHER -> 1

\* obj[k] of an object
JsonGet(tok, k) ==
    CASE tok = "{m=A}" /\ k = "message" -> StrVal(<<"A">>)
      [] tok = "{m=,t=B}" /\ k = "message" -> StrVal(<<>>)
      [] tok = "{m=,t=B}" /\ k = "text" -> StrVal(<<"B">>)
      [] tok = "{t=B}" /\ k = "text" -> StrVal(<<"B">>)
      [] tok = "{b=A}" /\ k = "body" -> StrVal(<<"A">>)
      [] tok = "{m=7,t=B}" /\ k = "message" -> NumVal
      [] tok = "{m=7,t=B}" /\ k = "text" -> StrVal(<<"B">>)
      [] tok = "{m= A LOG:{HB15}}" /\ k = "message" ->
             StrVal(<<" ", "A", " ", MARKER, "{HB15}">>)
      [] tok = "{SIG}" /\ k = "event" -> StrVal(<<"SIG">>)
      [] tok = "{HB15}" /\ k = "event" -> StrVal(<<"HB15">>)
      [] tok = "{hb15}" /\ k = "event" -> StrVal(<<"hb15">>)
      [] OTHER -> NoVal

\* first and last character of a token
FirstChar(t) ==
    IF t \in DictTokens \cup BadJsonTokens THEN "{"
    ELSE IF t \in OtherJsonTokens THEN "[" ELSE t
LastChar(t) ==
    IF t \in DictTokens \cup BadJsonTokens THEN "}"
    ELSE IF t \in OtherJsonTokens THEN "]" ELSE t

\* json.loads(s): "fail" when it raises, else the document
json_loads(s) ==
    LET q == strip(s)
    IN IF Len(q) = 1 /\ q[1] \in JsonTokens THEN q[1] ELSE "fail"

\* str.upper on the event names of the model
upper(w) == IF w = "hb15" THEN "HB15" ELSE w

(***************************************************************************)
(* Helpers: TradingView body extraction + LOG handling                     *)
(***************************************************************************)
\* the key lookup, had it skipped empty values
FirstStrKey_nonempty(obj) ==
    LET ks == <<"message", "text", "body">>
        hit(i) == /\ JsonGet(obj, ks[i]).has /\ JsonGet(obj, ks[i]).isstr
                  /\ strip(JsonGet(obj, ks[i]).s) # <<>>
    IN IF \E i \in 1..3 : hit(i)
       THEN ks[CHOOSE i \in 1..3 : hit(i) /\ \A j \in 1..(i - 1) : ~hit(j)]
       ELSE "none"

\* the first of the keys message, text, body whose value is a str, or "none"
FirstStrKey(obj) ==
    LET ks == <<"message", "text", "body">>
        hit(i) == JsonGet(obj, ks[i]).has /\ JsonGet(obj, ks[i]).isstr
    IN IF \E i \in 1..3 : hit(i)
       THEN ks[CHOOSE i \in 1..3 : hit(i) /\ \A j \in 1..(i - 1) : ~hit(j)]
       ELSE "none"

extract_tv_message(d) ==
    LET raw == strip(d)
        braces == raw # <<>> /\ FirstChar(raw[1]) = "{"
                             /\ LastChar(raw[Len(raw)]) = "}"
        obj == json_loads(raw)
    IN IF braces /\ obj \in DictTokens /\ FirstStrKey(obj) # "none"
       THEN strip(JsonGet(obj, FirstStrKey(obj)).s)
       ELSE raw

\* the loop, had it gone on after a line with an inline marker
RECURSIVE StripLoop_nobreak(_, _, _)
StripLoop_nobreak(lines, i, keep) ==
    IF i > Len(lines) THEN keep
    ELSE LET s == rstrip(lines[i])
         IN IF startswith(strip(s), MARKER)
            THEN StripLoop_nobreak(lines, i + 1, keep)
            ELSE IF find(s, MARKER) # 0
            THEN LET prefix == rstrip(SubSeq(s, 1, find(s, MARKER) - 1))
                 IN StripLoop_nobreak(lines, i + 1,
                        IF prefix # <<>> THEN Append(keep, prefix) ELSE keep)
            ELSE StripLoop_nobreak(lines, i + 1, Append(keep, s))

\* the loop of strip_log_from_body over lines[i..], keep is what it collected
RECURSIVE StripLoop(_, _, _)
StripLoop(lines, i, keep) ==
    IF i > Len(lines) THEN keep
    ELSE LET s == rstrip(lines[i])
         IN IF startswith(strip(s), MARKER)
            THEN StripLoop(lines, i + 1, keep)
            ELSE IF find(s, MARKER) # 0
            THEN LET prefix == rstrip(SubSeq(s, 1, find(s, MARKER) - 1))
                 IN IF prefix # <<>> THEN Append(keep, prefix) ELSE keep
            ELSE StripLoop(lines, i + 1, Append(keep, s))

strip_log_from_body(body) ==
    IF body = <<>> THEN <<>>
    ELSE strip(join(StripLoop(splitlines(body), 1, <<>>)))

\* the loop of parse_log_json, had it returned any JSON document
RECURSIVE ParseLoop_anyjson(_, _)
ParseLoop_anyjson(lines, i) ==
    IF i > Len(lines) THEN "None"
    ELSE LET s == strip(lines[i])
             idx == find(s, MARKER)
         IN IF idx = 0 THEN ParseLoop_anyjson(lines, i + 1)
            ELSE LET obj == json_loads(strip(SubSeq(s, idx + 1, Len(s))))
                 IN IF obj \in JsonTokens THEN obj ELSE "None"

\* parse_log_json: "None" or the object after the first marker
RECURSIVE ParseLoop(_, _)
ParseLoop(lines, i) ==
    IF i > Len(lines) THEN "None"
    ELSE LET s == strip(lines[i])
             idx == find(s, MARKER)
         IN IF idx = 0 THEN ParseLoop(lines, i + 1)
            ELSE LET obj == json_loads(strip(SubSeq(s, idx + 1, Len(s))))
                 IN IF obj \in DictTokens THEN obj ELSE "None"

parse_log_json(body) ==
    IF body = <<>> THEN "None" ELSE ParseLoop(splitlines(body), 1)

\* truth value of log_obj in "if log_obj:"
Truthy(obj) == obj # "None" /\ JsonLen(obj) > 0

\* str(log_obj.get("event", "")).upper() == "HB15"
IsHB15(obj) ==
    LET ev == JsonGet(obj, "event")
    IN ev.has /\ ev.isstr /\ Len(ev.s) = 1 /\ upper(ev.s[1]) = "HB15"

(***************************************************************************)
(* Helpers: time & CSV path                                                *)
(***************************************************************************)
DigitChars == <<"0", "1", "2", "3", "4", "5", "6", "7", "8", "9">>

\* format(n, "0<w>d"): at least w digits, zero padded
RECURSIVE Fmt(_, _)
Fmt(n, w) ==
    IF n < 10 /\ w <= 1 THEN <<DigitChars[n + 1]>>
    ELSE Append(Fmt(n \div 10, w - 1), DigitChars[(n % 10) + 1])

_get_csv_path(d) ==
    LET period_start == IF d.day % 2 = 1 THEN d.day ELSE d.day - 1
    IN <<"logs/", "gdm_signals_">> \o Fmt(d.year, 4) \o Fmt(d.month, 2)
         \o Fmt(d.day, 2) \o <<"_">> \o Fmt(period_start, 2) \o <<".csv">>

UtcDate(t) == [year |-> BaseYear, month |-> 1, day |-> 1 + (t \div TicksPerDay)]

LOG_FIELDS == <<"ts_utc", "event", "engine_version", "symbol", "host_tf",
                "t15_time", "time", "posDir", "raw_log_json">>

\* log_obj.get(k, "")
GetOrEmpty(obj, k) == IF JsonGet(obj, k).has THEN JsonGet(obj, k).s ELSE <<>>

LogRow(obj, t) ==
    <<t, GetOrEmpty(obj, "event"), GetOrEmpty(obj, "engine_version"),
      GetOrEmpty(obj, "symbol"), GetOrEmpty(obj, "host_tf"),
      GetOrEmpty(obj, "t15_time"), GetOrEmpty(obj, "time"),
      GetOrEmpty(obj, "posDir"), obj>>

\* f with f[k] set to v, k added when missing
Put(f, k, v) == [x \in DOMAIN f \cup {k} |-> IF x = k THEN v ELSE f[x]]

_ensure_csv_header(fs, path, header) ==
    IF path \notin DOMAIN fs THEN Put(fs, path, <<header>>) ELSE fs

append_log_row(fs, obj, t) ==
    LET path == _get_csv_path(UtcDate(t))
        fs1 == _ensure_csv_header(fs, path, LOG_FIELDS)
    IN Put(fs1, path, Append(fs1[path], LogRow(obj, t)))

\* rows stored in all files, headers not counted
RECURSIVE RowCount(_)
RowCount(fs) ==
    IF DOMAIN fs = {} THEN 0
    ELSE LET p == CHOOSE q \in DOMAIN fs : TRUE
         IN (Len(fs[p]) - 1) + RowCount([q \in DOMAIN fs \ {p} |-> fs[q]])

(***************************************************************************)
(* Telegram: de-dup + send with retry                                      *)
(***************************************************************************)
_hash_text(text) == <<"sha256", text>>

\* position of entry i when the entries are sorted by timestamp (stable)
Rank(d, i) ==
    Cardinality({j \in 1..Len(d) :
                   d[j].ts < d[i].ts \/ (d[j].ts = d[i].ts /\ j < i)})

\* the entries of d[i..] whose index is in S, in order
RECURSIVE Pick(_, _, _)
Pick(d, i, S) ==
    IF i > Len(d) THEN <<>>
    ELSE (IF i \in S THEN <<d[i]>> ELSE <<>>) \o Pick(d, i + 1, S)

Max2(a, b) == IF a >= b THEN a ELSE b

\* "purge old entries" when DEDUP_MAX_KEYS is cap: over the cap, remove the
\* oldest half
PurgeOldestCap(d, cap) ==
    IF Len(d) > cap
    THEN LET k == Max2(1, Len(d) \div 2)
         IN Pick(d, 1, {i \in 1..Len(d) : Rank(d, i) >= k})
    ELSE d

PurgeOldest(d) == PurgeOldestCap(d, DEDUP_MAX_KEYS)

\* the expiry, had it been left out
ExpireWindow_keep(d, t) == d

\* "expire window"
ExpireWindow(d, t) ==
    Pick(d, 1, {i \in 1..Len(d) : ~((t - d[i].ts) > DEDUP_WINDOW_SEC)})

HasKey(d, h) == \E i \in 1..Len(d) : d[i].h = h
GetKey(d, h) == d[CHOOSE i \in 1..Len(d) : d[i].h = h].ts
SetKey(d, h, t) ==
    IF HasKey(d, h)
    THEN [i \in 1..Len(d) |-> IF d[i].h = h THEN [h |-> h, ts |-> t] ELSE d[i]]
    ELSE Append(d, [h |-> h, ts |-> t])

\* _dedup_allows, had it allowed a text without recording it
_dedup_allows_noreserve(d, text, t) ==
    LET h == _hash_text(text)
        d2 == ExpireWindow(PurgeOldest(d), t)
    IN IF HasKey(d2, h) /\ (t - GetKey(d2, h)) <= DEDUP_WINDOW_SEC
       THEN [allows |-> FALSE, dedup |-> d2]
       ELSE [allows |-> TRUE, dedup |-> d2]

\* _dedup_allows, had it refreshed the timestamp of a suppressed text
_dedup_allows_refresh(d, text, t) ==
    LET h == _hash_text(text)
        d2 == ExpireWindow(PurgeOldest(d), t)
    IN IF HasKey(d2, h) /\ (t - GetKey(d2, h)) <= DEDUP_WINDOW_SEC
       THEN [allows |-> FALSE, dedup |-> SetKey(d2, h, t)]
       ELSE [allows |-> TRUE, dedup |-> SetKey(d2, h, t)]

\* _dedup_allows at time t: the answer and the dict it leaves
_dedup_allows(d, text, t) ==
    LET h == _hash_text(text)
        d2 == ExpireWindow(PurgeOldest(d), t)
    IN IF HasKey(d2, h) /\ (t - GetKey(d2, h)) <= DEDUP_WINDOW_SEC
       THEN [allows |-> FALSE, dedup |-> d2]
       ELSE [allows |-> TRUE, dedup |-> SetKey(d2, h, t)]

\* _dedup_allows when DEDUP_MAX_KEYS is cap
_dedup_allows_cap(d, text, t, cap) ==
    LET h == _hash_text(text)
        d2 == ExpireWindow(PurgeOldestCap(d, cap), t)
    IN IF HasKey(d2, h) /\ (t - GetKey(d2, h)) <= DEDUP_WINDOW_SEC
       THEN [allows |-> FALSE, dedup |-> d2]
       ELSE [allows |-> TRUE, dedup |-> SetKey(d2, h, t)]

\* the retries, had the warmup attempt been forgotten
RetryBudget_nowarmup(base, t) == base

\* retries of send_telegram_message at time t
RetryBudget(base, t) ==
    base + (IF (t - SERVER_START_TS) < READY_AFTER_SEC THEN 1 ELSE 0)

\* number of iterations of "for attempt in range(0, max(1, retries + 1))"
LoopCount(r) == Max2(1, r + 1)

(***************************************************************************)
(* Requests of the model                                                   *)
(***************************************************************************)
Bodies ==
    { <<>>,
      <<" ", NL>>,
      <<"A">>,
      <<"B", MARKER, "{bad}">>,
      <<"A", " ", MARKER, "{SIG}">>,
      <<MARKER, "{SIG}">>,
      <<MARKER, "{}">>,
      <<MARKER, "[1]">>,
      <<MARKER, "{HB15}">>,
      <<"A", NL, MARKER, " ", "{hb15}">>,
      <<"{m= A LOG:{HB15}}">> }

RetriesCfg == (0 - 1)..MaxRetriesCfg

PostResults == {"ok", "telegram_http_500", "telegram_exception"}

NoResponse == [status |-> 0, kind |-> "none", attempts |-> 0, detail |-> ""]
Resp(st, k, n, d) == [status |-> st, kind |-> k, attempts |-> n, detail |-> d]

\* result of a pure function, once it was applied
NoResult == [done |-> FALSE, val |-> <<>>]
Result(v) == [done |-> TRUE, val |-> v]

Count(seq, e) == Cardinality({i \in 1..Len(seq) : seq[i] = e})

\* requests.post calls recorded in a trace, and the failures among them
NetCalls(tr) == Cardinality({i \in 1..Len(tr) : tr[i] \in PostResults})
Failures(tr) == {i \in 1..Len(tr) : tr[i] \in PostResults \ {"ok"}}

(***************************************************************************)
(* The webhook handler, one request at a time                              *)
(***************************************************************************)
\* no reservation was made so far
NoHist == [allowed_at |-> <<>>, failed |-> {}, overflowed |-> {}]

\* the workers of the concurrent specification, and one that runs nothing
Workers == {"w1", "w2"}
IdleWorker == [pc |-> "idle", op |-> "none", arg |-> <<>>, t |-> 0,
               ret |-> "none"]

Init ==
    /\ TG_RETRIES \in RetriesCfg
    /\ credentials \in BOOLEAN
    /\ now = SERVER_START_TS
    /\ _dedup = <<>>
    /\ files = <<>>
    /\ pc = "idle"
    /\ data = <<>>
    /\ raw_body = <<>>
    /\ log_obj = "None"
    /\ clean_body = <<>>
    /\ retries = 0
    /\ attempt = 0
    /\ last_detail = ""
    /\ response = NoResponse
    /\ trace = <<>>
    /\ io_failed = FALSE
    /\ snap = [dedup |-> <<>>, files |-> <<>>]
    /\ nreq = 0
    /\ dedup_now = 0
    /\ asked = {}
    /\ delivered_at = <<>>
    /\ postFailed = FALSE
    /\ hist = NoHist
    /\ workers = [w \in Workers |-> IdleWorker]
    /\ pin = <<>>
    /\ pout = NoResult

\* the wall clock advances between requests; inside a request the model
\* lets time pass only in the backoff sleep
Tick ==
    /\ now < MaxTime
    /\ pc = "idle"
    /\ now' = now + 1
    /\ UNCHANGED <<TG_RETRIES, credentials, _dedup, files, pc, data, raw_body,
                   log_obj, clean_body, retries, attempt, last_detail,
                   response, trace, io_failed, snap, nreq, dedup_now, asked,
                   delivered_at, postFailed, hist, workers, pin, pout>>

\* webhook: extract_tv_message and parse_log_json, for at most limit requests
Arrive(b, limit) ==
    /\ pc = "idle"
    /\ nreq < limit
    /\ data' = b
    /\ raw_body' = extract_tv_message(b)
    /\ log_obj' = parse_log_json(raw_body')
    /\ clean_body' = <<>>
    /\ retries' = 0
    /\ attempt' = 0
    /\ last_detail' = ""
    /\ response' = NoResponse
    /\ trace' = <<>>
    /\ io_failed' = FALSE
    /\ snap' = [dedup |-> _dedup, files |-> files]
    /\ pc' = IF Truthy(log_obj') THEN "telemetry" ELSE "text"
    /\ UNCHANGED <<TG_RETRIES, credentials, now, _dedup, files, nreq,
                   dedup_now, asked, delivered_at, postFailed, hist, workers, pin, pout>>

Receive(b) == Arrive(b, MaxRequests)

\* the heartbeat check, had it let heartbeats through to delivery
HeartbeatCheck_continue ==
    /\ response' = response
    /\ pc' = "text"

\* webhook: "if HB15 telemetry, skip Telegram intentionally"
HeartbeatCheck ==
    IF IsHB15(log_obj)
    THEN /\ response' = Resp(200, "HB15_logged", 0, "")
         /\ pc' = "done"
    ELSE /\ response' = response
         /\ pc' = "text"

\* webhook: append_log_row returns
Telemetry ==
    /\ pc = "telemetry"
    /\ files' = append_log_row(files, log_obj, now)
    /\ trace' = Append(trace, "append")
    /\ HeartbeatCheck
    /\ UNCHANGED <<TG_RETRIES, credentials, now, _dedup, data, raw_body,
                   log_obj, clean_body, retries, attempt, last_detail,
                   io_failed, snap, nreq, dedup_now, asked, delivered_at,
                   postFailed, hist, workers, pin, pout>>

\* append_log_row raises and nothing catches it before the outer handler
TelemetryFails_raise ==
    /\ pc = "telemetry"
    /\ files' \in {files, _ensure_csv_header(files,
                              _get_csv_path(UtcDate(now)), LOG_FIELDS)}
    /\ trace' = Append(trace, "append")
    /\ io_failed' = TRUE
    /\ response' = Resp(500, "error", 0, "")
    /\ pc' = "done"
    /\ UNCHANGED <<TG_RETRIES, credentials, now, _dedup, data, raw_body,
                   log_obj, clean_body, retries, attempt, last_detail,
                   snap, nreq, dedup_now, asked, delivered_at, postFailed,
                   hist, workers, pin, pout>>

\* webhook: append_log_row raises, before or after the header was written
TelemetryFails ==
    /\ pc = "telemetry"
    /\ files' \in {files, _ensure_csv_header(files,
                              _get_csv_path(UtcDate(now)), LOG_FIELDS)}
    /\ trace' = Append(trace, "append")
    /\ io_failed' = TRUE
    /\ HeartbeatCheck
    /\ UNCHANGED <<TG_RETRIES, credentials, now, _dedup, data, raw_body,
                   log_obj, clean_body, retries, attempt, last_detail,
                   snap, nreq, dedup_now, asked, delivered_at, postFailed,
                   hist, workers, pin, pout>>

\* the empty check of webhook, had it been left out
NotCleanBody_never(t) == FALSE

\* webhook: "if not clean_body"
NotCleanBody(t) == t = <<>>

\* webhook: strip_log_from_body, then send_telegram_message up to the loop
Text ==
    /\ pc = "text"
    /\ clean_body' = strip_log_from_body(raw_body)
    /\ IF NotCleanBody(clean_body')
       THEN /\ response' = Resp(200, "telemetry_only_or_empty", 0, "")
            /\ pc' = "done"
            /\ UNCHANGED <<_dedup, trace, dedup_now, retries>>
       ELSE IF strip(clean_body') = <<>>
       THEN /\ response' = Resp(200, "empty_message", 0, "")
            /\ pc' = "done"
            /\ UNCHANGED <<_dedup, trace, dedup_now, retries>>
       ELSE LET r == _dedup_allows(_dedup, clean_body', now)
            IN /\ _dedup' = r.dedup
               /\ trace' = Append(trace, "dedup")
               /\ dedup_now' = now
               /\ IF r.allows
                  THEN /\ retries' = RetryBudget(TG_RETRIES, now)
                       /\ pc' = "post"
                       /\ response' = response
                  ELSE /\ retries' = retries
                       /\ pc' = "done"
                       /\ response' = Resp(200, "dedup_window", 0, "")
    /\ UNCHANGED <<TG_RETRIES, credentials, now, files, data, raw_body,
                   log_obj, attempt, last_detail, io_failed, snap, nreq,
                   asked, delivered_at, postFailed, hist, workers, pin, pout>>

\* the end of the loop, had webhook answered a failed delivery with 200
Exhausted_ok(detail) ==
    /\ response' = Resp(200, "failed", retries + 1, detail)
    /\ pc' = "done"

\* send_telegram_message: the loop is over, every attempt failed
Exhausted(detail) ==
    /\ response' = Resp(202, "failed", retries + 1, detail)
    /\ pc' = "done"

\* send_telegram_message: what follows a failed _telegram_post
AfterFailure(detail) ==
    /\ last_detail' = detail
    /\ IF attempt < retries
       THEN /\ pc' = "backoff"
            /\ UNCHANGED <<response, attempt>>
       ELSE IF attempt + 1 < LoopCount(retries)
       THEN /\ pc' = "post"
            /\ attempt' = attempt + 1
            /\ UNCHANGED response
       ELSE /\ Exhausted(detail)
            /\ UNCHANGED attempt

\* _telegram_post without credentials: no request is made
PostMisconfigured ==
    /\ pc = "post"
    /\ ~credentials
    /\ trace' = Append(trace, "post")
    /\ AfterFailure("Missing Telegram credentials")
    /\ UNCHANGED <<TG_RETRIES, credentials, now, _dedup, files, data,
                   raw_body, log_obj, clean_body, retries, io_failed, snap,
                   nreq, dedup_now, asked, delivered_at, postFailed, hist, workers, pin,
                   pout>>

\* a successful post, had it reported the loop index and not attempt + 1
Post_index(res) ==
    /\ pc = "post"
    /\ credentials
    /\ trace' = trace \o <<"post", res>>
    /\ IF res = "ok"
       THEN /\ response' = Resp(200, "delivered", attempt, "ok")
            /\ pc' = "done"
            /\ UNCHANGED <<last_detail, attempt, postFailed>>
       ELSE /\ postFailed' = TRUE
            /\ AfterFailure(res)
    /\ UNCHANGED <<TG_RETRIES, credentials, now, _dedup, files, data,
                   raw_body, log_obj, clean_body, retries, io_failed, snap,
                   nreq, dedup_now, asked, delivered_at, hist, workers, pin, pout>>

\* _telegram_post: requests.post answers with res
Post(res) ==
    /\ pc = "post"
    /\ credentials
    /\ trace' = trace \o <<"post", res>>
    /\ IF res = "ok"
       THEN /\ response' = Resp(200, "delivered", attempt + 1, "ok")
            /\ pc' = "done"
            /\ UNCHANGED <<last_detail, attempt, postFailed>>
       ELSE /\ postFailed' = TRUE
            /\ AfterFailure(res)
    /\ UNCHANGED <<TG_RETRIES, credentials, now, _dedup, files, data,
                   raw_body, log_obj, clean_body, retries, io_failed, snap,
                   nreq, dedup_now, asked, delivered_at, hist, workers, pin, pout>>

\* send_telegram_message: time.sleep(TG_BACKOFF_SEC), then the next attempt
Backoff ==
    /\ pc = "backoff"
    /\ now + TG_BACKOFF_SEC <= MaxTime
    /\ now' = now + TG_BACKOFF_SEC
    /\ trace' = Append(trace, "sleep")
    /\ attempt' = attempt + 1
    /\ IF attempt + 1 < LoopCount(retries)
       THEN /\ pc' = "post"
            /\ UNCHANGED response
       ELSE Exhausted(last_detail)
    /\ UNCHANGED <<TG_RETRIES, credentials, _dedup, files, data, raw_body,
                   log_obj, clean_body, retries, last_detail, io_failed,
                   snap, nreq, dedup_now, asked, delivered_at, postFailed,
                   hist, workers, pin, pout>>

\* hist after the current request: when it called _dedup_allows, the time
\* of the call if the text was allowed, whether the delivery then failed, and
\* the texts reserved before a call that found the dict over DEDUP_MAX_KEYS
Remember ==
    LET called == Count(trace, "dedup") > 0
        allowed == response.kind # "dedup_window"
        over == IF Len(snap.dedup) > DEDUP_MAX_KEYS
                THEN hist.overflowed \cup DOMAIN hist.allowed_at
                ELSE hist.overflowed
    IN IF ~called THEN hist
       ELSE [allowed_at |-> IF allowed
                            THEN Put(hist.allowed_at, clean_body, dedup_now)
                            ELSE hist.allowed_at,
             failed |-> IF response.kind = "failed"
                        THEN hist.failed \cup {clean_body}
                        ELSE IF response.kind = "delivered"
                        THEN hist.failed \ {clean_body}
                        ELSE hist.failed,
             overflowed |-> IF allowed THEN over \ {clean_body} ELSE over]

\* the response is sent; the worker takes the next request
Finish ==
    /\ pc = "done"
    /\ pc' = "idle"
    /\ nreq' = nreq + 1
    /\ asked' = IF Count(trace, "dedup") > 0 THEN asked \cup {clean_body}
                ELSE asked
    /\ delivered_at' = IF response.kind = "delivered"
                       THEN Put(delivered_at, clean_body, dedup_now)
                       ELSE delivered_at
    /\ data' = <<>>
    /\ raw_body' = <<>>
    /\ log_obj' = "None"
    /\ clean_body' = <<>>
    /\ retries' = 0
    /\ attempt' = 0
    /\ last_detail' = ""
    /\ response' = NoResponse
    /\ trace' = <<>>
    /\ io_failed' = FALSE
    /\ snap' = [dedup |-> <<>>, files |-> <<>>]
    /\ dedup_now' = 0
    /\ hist' = Remember
    /\ UNCHANGED <<TG_RETRIES, credentials, now, _dedup, files, postFailed,
                   workers, pin, pout>>

Next ==
    \/ Tick
    \/ \E b \in Bodies : Receive(b)
    \/ Telemetry
    \/ TelemetryFails
    \/ Text
    \/ PostMisconfigured
    \/ \E res \in PostResults : Post(res)
    \/ Backoff
    \/ Finish

Spec == Init /\ [][Next]_vars

(***************************************************************************)
(* The same handler under a stream of plain signal texts                   *)
(***************************************************************************)
SignalBodies == { <<"A">>, <<"B">>, <<"C", NL>> }

Signal(b) == Arrive(b, MaxSignals)

NextSignal ==
    \/ Tick
    \/ \E b \in SignalBodies : Signal(b)
    \/ Text
    \/ PostMisconfigured
    \/ \E res \in PostResults : Post(res)
    \/ Backoff
    \/ Finish

SpecSignal == Init /\ [][NextSignal]_vars

\* webhook: something raises inside the outer try before any effect (here
\* req.get_data in extract_tv_message); the outer except answers 500
ReceiveFails(b) ==
    /\ pc = "idle"
    /\ nreq < MaxRequests
    /\ data' = b
    /\ raw_body' = <<>>
    /\ log_obj' = "None"
    /\ clean_body' = <<>>
    /\ retries' = 0
    /\ attempt' = 0
    /\ last_detail' = ""
    /\ response' = Resp(500, "error", 0, "")
    /\ trace' = <<"raise">>
    /\ io_failed' = FALSE
    /\ snap' = [dedup |-> _dedup, files |-> files]
    /\ pc' = "done"
    /\ UNCHANGED <<TG_RETRIES, credentials, now, _dedup, files, nreq,
                   dedup_now, asked, delivered_at, postFailed, hist, workers, pin, pout>>

\* the requests of Spec, any of which may also fail on entry
NextFault ==
    \/ Tick
    \/ \E b \in Bodies : Receive(b)
    \/ \E b \in {<<"A">>, <<MARKER, "{SIG}">>} : ReceiveFails(b)
    \/ Telemetry
    \/ TelemetryFails
    \/ Text
    \/ PostMisconfigured
    \/ \E res \in PostResults : Post(res)
    \/ Backoff
    \/ Finish

SpecFault == Init /\ [][NextFault]_vars

TypeOK ==
    /\ pc \in {"idle", "telemetry", "text", "post", "backoff", "done"}
    /\ now \in 0..MaxTime

(***************************************************************************)
(* Pure functions applied to inputs drawn from bounded sets.  The handler  *)
(* is at rest in these specifications.                                     *)
(***************************************************************************)
AtRest ==
    /\ TG_RETRIES = 0
    /\ credentials = TRUE
    /\ now = SERVER_START_TS
    /\ _dedup = <<>>
    /\ files = <<>>
    /\ pc = "idle"
    /\ data = <<>>
    /\ raw_body = <<>>
    /\ log_obj = "None"
    /\ clean_body = <<>>
    /\ retries = 0
    /\ attempt = 0
    /\ last_detail = ""
    /\ response = NoResponse
    /\ trace = <<>>
    /\ io_failed = FALSE
    /\ snap = [dedup |-> <<>>, files |-> <<>>]
    /\ nreq = 0
    /\ dedup_now = 0
    /\ asked = {}
    /\ delivered_at = <<>>
    /\ postFailed = FALSE
    /\ hist = NoHist
    /\ workers = [w \in Workers |-> IdleWorker]

Apply(v) ==
    /\ ~pout.done
    /\ pout' = Result(v)
    /\ UNCHANGED <<TG_RETRIES, credentials, now, _dedup, files, pc, data,
                   raw_body, log_obj, clean_body, retries, attempt,
                   last_detail, response, trace, io_failed, snap, nreq,
                   dedup_now, asked, delivered_at, postFailed, hist, workers, pin>>

\* _dedup_allows called by one worker, again and again, with GDM_DEDUP_MAX_KEYS
\* in pin and the last call in pout
DedupTexts == { <<"A">>, <<"B">>, <<"C">>, <<"D">>, <<"E">> }

InitDedup ==
    /\ AtRest
    /\ pin \in 0..MaxCap
    /\ pout = NoResult

DedupTick ==
    /\ now < MaxTime
    /\ now' = now + 1
    /\ UNCHANGED <<TG_RETRIES, credentials, _dedup, files, pc, data, raw_body,
                   log_obj, clean_body, retries, attempt, last_detail,
                   response, trace, io_failed, snap, nreq, dedup_now, asked,
                   delivered_at, postFailed, hist, workers, pin, pout>>

DedupCall(text) ==
    LET r == _dedup_allows_cap(_dedup, text, now, pin)
    IN /\ _dedup' = r.dedup
       /\ pout' = Result([before |-> _dedup, text |-> text, t |-> now,
                          allows |-> r.allows])
       /\ UNCHANGED <<TG_RETRIES, credentials, now, files, pc, data,
                      raw_body, log_obj, clean_body, retries, attempt,
                      last_detail, response, trace, io_failed, snap, nreq,
                      dedup_now, asked, delivered_at, postFailed, hist,
                      workers, pin>>

NextDedup ==
    \/ DedupTick
    \/ \E text \in DedupTexts : DedupCall(text)

SpecDedup == InitDedup /\ [][NextDedup]_vars

\* Workers run _dedup_allows and append_log_row at the same time on the one
\* dict and the one log directory.  Nothing in the source serialises them,
\* so a worker can be preempted between any two statements; the steps below
\* are coarser than that and every run of them is a run of the program.
WorkerTexts == { <<"A">>, <<"B">> }
WorkerObjs == { "{SIG}", "{HB15}" }

InitWorkers ==
    /\ AtRest
    /\ pin = <<>>
    /\ pout = NoResult

WorkerTick ==
    /\ now < MaxTime
    /\ now' = now + 1
    /\ UNCHANGED <<TG_RETRIES, credentials, _dedup, files, pc, data, raw_body,
                   log_obj, clean_body, retries, attempt, last_detail,
                   response, trace, io_failed, snap, nreq, dedup_now, asked,
                   delivered_at, postFailed, hist, workers, pin, pout>>

\* _dedup_allows: now = time.time(), the cap purge and the window expiry
StartDedup(w, text) ==
    /\ workers[w].pc = "idle"
    /\ _dedup' = ExpireWindow(PurgeOldest(_dedup), now)
    /\ workers' = [workers EXCEPT ![w] = [pc |-> "lookup", op |-> "dedup",
                                          arg |-> text, t |-> now,
                                          ret |-> "none"]]
    /\ UNCHANGED <<TG_RETRIES, credentials, now, files, pc, data, raw_body,
                   log_obj, clean_body, retries, attempt, last_detail,
                   response, trace, io_failed, snap, nreq, dedup_now, asked,
                   delivered_at, postFailed, hist, pin, pout>>

\* _dedup_allows: last = _dedup.get(h) and the test on it
DedupLookup(w) ==
    /\ workers[w].pc = "lookup"
    /\ LET h == _hash_text(workers[w].arg)
       IN IF HasKey(_dedup, h)
             /\ (workers[w].t - GetKey(_dedup, h)) <= DEDUP_WINDOW_SEC
          THEN workers' = [workers EXCEPT ![w].pc = "done",
                                          ![w].ret = "False"]
          ELSE workers' = [workers EXCEPT ![w].pc = "store"]
    /\ UNCHANGED <<TG_RETRIES, credentials, now, _dedup, files, pc, data,
                   raw_body, log_obj, clean_body, retries, attempt,
                   last_detail, response, trace, io_failed, snap, nreq,
                   dedup_now, asked, delivered_at, postFailed, hist, pin,
                   pout>>

\* _dedup_allows: _dedup[h] = now; return True
DedupStore(w) ==
    /\ workers[w].pc = "store"
    /\ _dedup' = SetKey(_dedup, _hash_text(workers[w].arg), workers[w].t)
    /\ workers' = [workers EXCEPT ![w].pc = "done", ![w].ret = "True"]
    /\ UNCHANGED <<TG_RETRIES, credentials, now, files, pc, data, raw_body,
                   log_obj, clean_body, retries, attempt, last_detail,
                   response, trace, io_failed, snap, nreq, dedup_now, asked,
                   delivered_at, postFailed, hist, pin, pout>>

\* append_log_row: now, path, and os.path.exists(path) of _ensure_csv_header
StartAppend(w, obj) ==
    /\ workers[w].pc = "idle"
    /\ workers' = [workers EXCEPT ![w] =
                      [pc |-> IF _get_csv_path(UtcDate(now)) \in DOMAIN files
                              THEN "row" ELSE "create",
                       op |-> "append", arg |-> obj, t |-> now,
                       ret |-> "none"]]
    /\ UNCHANGED <<TG_RETRIES, credentials, now, _dedup, files, pc, data,
                   raw_body, log_obj, clean_body, retries, attempt,
                   last_detail, response, trace, io_failed, snap, nreq,
                   dedup_now, asked, delivered_at, postFailed, hist, pin,
                   pout>>

\* _ensure_csv_header: open(path, "w") empties the file, the header is
\* written
AppendCreate(w) ==
    /\ workers[w].pc = "create"
    /\ files' = Put(files, _get_csv_path(UtcDate(workers[w].t)),
                    <<LOG_FIELDS>>)
    /\ workers' = [workers EXCEPT ![w].pc = "row"]
    /\ UNCHANGED <<TG_RETRIES, credentials, now, _dedup, pc, data, raw_body,
                   log_obj, clean_body, retries, attempt, last_detail,
                   response, trace, io_failed, snap, nreq, dedup_now, asked,
                   delivered_at, postFailed, hist, pin, pout>>

\* append_log_row: open(path, "a") and writerow(row)
AppendRow(w) ==
    /\ workers[w].pc = "row"
    /\ LET path == _get_csv_path(UtcDate(workers[w].t))
           rows == IF path \in DOMAIN files THEN files[path] ELSE <<>>
       IN files' = Put(files, path,
                       Append(rows, LogRow(workers[w].arg, workers[w].t)))
    /\ workers' = [workers EXCEPT ![w].pc = "done", ![w].ret = "None"]
    /\ UNCHANGED <<TG_RETRIES, credentials, now, _dedup, pc, data, raw_body,
                   log_obj, clean_body, retries, attempt, last_detail,
                   response, trace, io_failed, snap, nreq, dedup_now, asked,
                   delivered_at, postFailed, hist, pin, pout>>

NextWorkers ==
    \/ WorkerTick
    \/ \E w \in Workers, text \in WorkerTexts : StartDedup(w, text)
    \/ \E w \in Workers : DedupLookup(w)
    \/ \E w \in Workers : DedupStore(w)
    \/ \E w \in Workers, obj \in WorkerObjs : StartAppend(w, obj)
    \/ \E w \in Workers : AppendCreate(w)
    \/ \E w \in Workers : AppendRow(w)

SpecWorkers == InitWorkers /\ [][NextWorkers]_vars

\* days of a month of the Gregorian calendar
DaysInMonth(y, m) ==
    IF m = 2
    THEN (IF y % 4 = 0 /\ (y % 100 # 0 \/ y % 400 = 0) THEN 29 ELSE 28)
    ELSE IF m \in {4, 6, 9, 11} THEN 30 ELSE 31

\* UTC dates of two years
Dates ==
    {d \in [year : BaseYear..(BaseYear + 1), month : 1..12, day : 1..31] :
        d.day <= DaysInMonth(d.year, d.month)}

\* two dates of the same year and month
InitPath ==
    /\ AtRest
    /\ pin \in {p \in Dates \X Dates :
                  p[1].year = p[2].year /\ p[1].month = p[2].month}
    /\ pout = NoResult

PathOfBoth == Apply(<<_get_csv_path(pin[1]), _get_csv_path(pin[2])>>)

NextPath == PathOfBoth

SpecPath == InitPath /\ [][NextPath]_vars

\* sequences over S of length at most n
SeqsUpTo(S, n) == UNION {[1..k -> S] : k \in 0..n}

\* request bodies: plain text, JSON documents, broken JSON, a form field
ExtractTokens ==
    {" ", "A", "{m=A}", "{m=,t=B}", "{t=B}", "{b=A}", "{m=7,t=B}",
     "{m= A LOG:{HB15}}", "{SIG}", "{bad}", "[1]", "message=A"}

InitExtract ==
    /\ AtRest
    /\ pin \in SeqsUpTo(ExtractTokens, MaxTokens)
    /\ pout = NoResult

Extract == Apply(extract_tv_message(pin))

NextExtract == Extract

SpecExtract == InitExtract /\ [][NextExtract]_vars

\* lines of an alert: text, marker lines, inline markers, a broken payload
AlertLines ==
    { <<>>,
      <<"A">>,
      <<"B", " ">>,
      <<MARKER, "{SIG}">>,
      <<" ", MARKER, " ", "{HB15}">>,
      <<"A", " ", MARKER, "{SIG}">>,
      <<"A", MARKER, "{bad}">>,
      <<"B", MARKER, "{SIG}", MARKER>> }

InitSplit ==
    /\ AtRest
    /\ pin \in {join(ls) : ls \in SeqsUpTo(AlertLines, MaxLines)}
    /\ pout = NoResult

Split == Apply([clean |-> strip_log_from_body(pin),
                log |-> parse_log_json(pin)])

NextSplit == Split

SpecSplit == InitSplit /\ [][NextSplit]_vars

(***************************************************************************)
(* Properties                                                              *)
(***************************************************************************)
\* the current request went through _dedup_allows with its text
Deduped == pc = "done" /\ Count(trace, "dedup") = 1

\* the endpoint has accepted every message so far and only the text of the
\* current request was ever sent
OnlyThisText == credentials /\ ~postFailed /\ asked \subseteq {clean_body}

\* C1: under a stream of requests carrying one text T and an endpoint that
\* accepts every message, the first request is delivered, a request no later
\* than DEDUP_WINDOW_SEC after the last delivered send of T is skipped as a
\* duplicate without a network call, and a request later than that is
\* delivered again.
C1_DedupWindow ==
    (Deduped /\ OnlyThisText) =>
        IF clean_body \in DOMAIN delivered_at
        THEN IF dedup_now - delivered_at[clean_body] <= DEDUP_WINDOW_SEC
             THEN /\ response.kind = "dedup_window"
                  /\ NetCalls(trace) = 0
             ELSE /\ response.kind = "delivered"
                  /\ NetCalls(trace) = 1
        ELSE /\ response.kind = "delivered"
             /\ NetCalls(trace) = 1

\* the third request of one text is delivered again after the second one,
\* inside the window of the first, was not
C1_Witness ==
    /\ Deduped /\ OnlyThisText
    /\ nreq = 2
    /\ response.kind = "delivered"
    /\ clean_body \in DOMAIN delivered_at
    /\ delivered_at[clean_body] = 0
    /\ asked = {clean_body}

\* every endpoint call of the current request failed and the loop is over
AllFailed == pc = "done" /\ credentials /\ response.kind = "failed"

InWarmup == (dedup_now - SERVER_START_TS) < READY_AFTER_SEC

LastFailure == trace[CHOOSE i \in Failures(trace) :
                         \A j \in Failures(trace) : j <= i]

\* C2 as stated: when every attempt fails, there are exactly
\* TG_RETRIES + 1 endpoint calls at or beyond the warmup window and
\* TG_RETRIES + 2 inside it, and the result reports that number as attempts
\* with the last failure detail.
C2_AsStated ==
    AllFailed =>
        LET n == TG_RETRIES + (IF InWarmup THEN 2 ELSE 1)
        IN /\ NetCalls(trace) = n
           /\ response.attempts = n
           /\ response.detail = LastFailure

\* C2 amended: the number of endpoint calls is max(1, TG_RETRIES + 1) at or
\* beyond the warmup window and max(1, TG_RETRIES + 2) inside it; the result
\* has ok = false (status 202), attempts = TG_RETRIES + 1 (resp. + 2) and the
\* last failure detail.
C2_RetryExhaustion ==
    AllFailed =>
        LET n == TG_RETRIES + (IF InWarmup THEN 2 ELSE 1)
        IN /\ NetCalls(trace) = Max2(1, n)
           /\ Count(trace, "ok") = 0
           /\ response.status = 202
           /\ response.attempts = n
           /\ response.detail = LastFailure

C2_Witness ==
    /\ AllFailed
    /\ InWarmup
    /\ TG_RETRIES >= 1
    /\ NetCalls(trace) = TG_RETRIES + 2

\* the 2-day period of a day of the month: days 2k-1 and 2k are period k
Period(day) == (day + 1) \div 2

\* C3: two dates of one year and month get the same bucket path exactly when
\* their days fall in the same 2-day period.
C3_BucketPerPeriod ==
    pout.done =>
        ((Period(pin[1].day) = Period(pin[2].day)) <=> (pout.val[1] = pout.val[2]))

\* the telemetry fragment of the current request parsed and is a heartbeat
Heartbeat == pc = "done" /\ log_obj # "None" /\ IsHB15(log_obj)

\* C4: a request whose telemetry fragment parses with event HB15 ends as
\* HB15_logged after append_log_row was called (one row more unless the
\* write failed), with no _dedup_allows call, no _telegram_post call, no
\* sleep and _dedup unchanged, whether or not text remains in the alert.
C4_HeartbeatSuppressed ==
    Heartbeat =>
        /\ response.kind = "HB15_logged"
        /\ response.status = 200
        /\ trace = <<"append">>
        /\ _dedup = snap.dedup
        /\ ~io_failed => files = append_log_row(snap.files, log_obj, now)
        /\ io_failed => RowCount(files) = RowCount(snap.files)

\* a heartbeat whose alert also carries text, stored and not delivered
C4_Witness ==
    /\ Heartbeat
    /\ strip_log_from_body(raw_body) # <<>>
    /\ ~io_failed
    /\ RowCount(files) = RowCount(snap.files) + 1

\* C5: a request whose body is empty or only whitespace ends as
\* telemetry_only_or_empty with no call of append_log_row, _dedup_allows or
\* _telegram_post, and leaves the files and _dedup as they were.
C5_EmptyBody ==
    (pc = "done" /\ strip(data) = <<>>) =>
        /\ response.kind = "telemetry_only_or_empty"
        /\ response.status = 200
        /\ trace = <<>>
        /\ files = snap.files
        /\ _dedup = snap.dedup

\* a whitespace-only body was answered
C5_Witness ==
    /\ pc = "done"
    /\ data = <<" ", NL>>
    /\ response.kind = "telemetry_only_or_empty"

\* C6: whenever the telemetry fragment of a request parses as a key-value
\* mapping, append_log_row is called once, before _dedup_allows and before
\* any _telegram_post, whatever the outcome of the request.
C6_AppendFirst ==
    (pc = "done" /\ log_obj # "None") =>
        /\ Count(trace, "append") = 1
        /\ trace[1] = "append"

\* the delivery call of the current request ran without credentials
Misconfigured == pc = "done" /\ ~credentials /\ Count(trace, "post") > 0

\* C7: without credentials the delivery of a non-empty, non-duplicate text
\* fails at once as misconfigured: one _telegram_post call, no network
\* call, no retry, no sleep; the telemetry row of the request is appended.
C7_MisconfiguredAtOnce ==
    Misconfigured =>
        /\ response.kind = "failed"
        /\ response.detail = "Missing Telegram credentials"
        /\ NetCalls(trace) = 0
        /\ Count(trace, "post") = 1
        /\ Count(trace, "sleep") = 0
        /\ (Truthy(log_obj) /\ ~io_failed) =>
               files = append_log_row(snap.files, log_obj, dedup_now)

\* the outcome of the current request as a function of its alert, the
\* de-dup state it found and the answers of the endpoint
ExpectedKind ==
    IF IsHB15(log_obj) THEN "HB15_logged"
    ELSE LET clean == strip_log_from_body(raw_body)
         IN IF clean = <<>> THEN "telemetry_only_or_empty"
            ELSE IF ~_dedup_allows(snap.dedup, clean, dedup_now).allows
            THEN "dedup_window"
            ELSE IF trace[Len(trace)] = "ok" THEN "delivered" ELSE "failed"

\* C8: a request with telemetry never ends in the internal error outcome
\* because of the append; whether append_log_row raised or not, the outcome
\* is the one the heartbeat check, the empty check, de-dup and delivery give.
C8_AppendFailureNotFatal ==
    (pc = "done" /\ Count(trace, "append") > 0) =>
        /\ response.status \in {200, 202}
        /\ response.kind = ExpectedKind

\* the append raised and the signal of the same request was delivered
C8_Witness ==
    /\ pc = "done"
    /\ io_failed
    /\ response.kind = "delivered"

\* the form field "message" of a form-encoded body
FormMessage(raw) == IF raw = <<"message=A">> THEN <<"A">> ELSE <<>>

\* the value of key k when the body is a well-formed object and the value a str
StructuredField(raw, k) ==
    LET obj == json_loads(raw)
    IN IF obj \in DictTokens /\ JsonGet(obj, k).isstr
       THEN strip(JsonGet(obj, k).s) ELSE <<>>

IsStr(v) == v.has /\ v.isstr

LineOnItsOwn(ln) ==
    LET s == rstrip(ln)
    IN IF startswith(strip(s), MARKER) THEN <<>>
       ELSE IF find(s, MARKER) # 0
       THEN (IF rstrip(SubSeq(s, 1, find(s, MARKER) - 1)) # <<>>
             THEN <<rstrip(SubSeq(s, 1, find(s, MARKER) - 1))>> ELSE <<>>)
       ELSE <<s>>

RECURSIVE EachLine(_)
EachLine(lines) ==
    IF lines = <<>> THEN <<>>
    ELSE LineOnItsOwn(Head(lines)) \o EachLine(Tail(lines))

\* a line that has the marker after other text
InlineMarker(ln) == find(ln, MARKER) # 0 /\ ~startswith(strip(ln), MARKER)

\* C10 as stated: every line is treated on its own (marker line dropped,
\* inline marker cut to its trimmed prefix, other lines kept in order, also
\* after a line with an inline marker) and the result has no marker.
C10_AsStated ==
    (pout.done /\ "clean" \in DOMAIN pout.val) =>
        /\ pout.val.clean = strip(join(EachLine(splitlines(pin))))
        /\ find(pout.val.clean, MARKER) = 0

\* C10 amended: lines are treated in order up to and including the first
\* line with an inline marker (marker line dropped, inline marker cut to its
\* trimmed prefix, other lines kept); every line after the first line with
\* an inline marker is discarded; the result has no marker.
C10_StripUpToInlineMarker ==
    (pout.done /\ "clean" \in DOMAIN pout.val) =>
        LET lines == splitlines(pin)
            cut == IF \E i \in 1..Len(lines) : InlineMarker(lines[i])
                   THEN CHOOSE i \in 1..Len(lines) :
                          /\ InlineMarker(lines[i])
                          /\ \A j \in 1..(i - 1) : ~InlineMarker(lines[j])
                   ELSE Len(lines)
        IN /\ pout.val.clean = strip(join(EachLine(SubSeq(lines, 1, cut))))
           /\ find(pout.val.clean, MARKER) = 0

\* a text line after a line with an inline marker was discarded
C10_Witness ==
    /\ pout.done
    /\ pin = <<"A", " ", MARKER, "{SIG}", NL, "B", " ">>
    /\ pout.val.clean = <<"A">>

\* the alert has a marker and what follows the first marker on its line is
\* not a JSON object
MalformedFragment(body) ==
    /\ find(body, MARKER) # 0
    /\ LET lines == splitlines(body)
           k == CHOOSE i \in 1..Len(lines) :
                   /\ find(lines[i], MARKER) # 0
                   /\ \A j \in 1..(i - 1) : find(lines[j], MARKER) = 0
           payload == strip(SubSeq(lines[k], find(lines[k], MARKER) + 1,
                                   Len(lines[k])))
       IN ~(Len(payload) = 1 /\ payload[1] \in DictTokens)

\* the same alert with a well-formed fragment in place of the broken one
WellFormed(body) ==
    [i \in 1..Len(body) |->
        IF body[i] \in BadJsonTokens \cup OtherJsonTokens THEN "{SIG}"
        ELSE body[i]]

\* C11: when the text after the first marker is not a key-value mapping,
\* log_obj is None and append_log_row is not called, clean_body is what the
\* same alert with a well-formed fragment gives, and the request goes on to
\* _dedup_allows and delivery of that text (or ends as empty when no text
\* remains) and never as an internal error.
C11_MalformedFragment ==
    (pc = "done" /\ MalformedFragment(raw_body)) =>
        /\ log_obj = "None"
        /\ Count(trace, "append") = 0
        /\ files = snap.files
        /\ ~MalformedFragment(WellFormed(raw_body))
        /\ LET clean == strip_log_from_body(WellFormed(raw_body))
           IN IF clean = <<>>
              THEN /\ response.kind = "telemetry_only_or_empty"
                   /\ trace = <<>>
              ELSE /\ clean_body = clean
                   /\ trace[1] = "dedup"
                   /\ response.kind \in {"dedup_window", "delivered", "failed"}
                   /\ response.status \in {200, 202}

\* the text before a broken fragment was delivered and no row was written
C11_Witness ==
    /\ pc = "done"
    /\ data = <<"B", MARKER, "{bad}">>
    /\ clean_body = <<"B">>
    /\ response.kind = "delivered"
    /\ files = snap.files

\* what happened to the request, read off its effects and not its response
Outcome ==
    IF Count(trace, "raise") > 0 THEN "internal_error"
    ELSE IF Truthy(log_obj) /\ IsHB15(log_obj) THEN "skipped"
    ELSE IF strip_log_from_body(raw_body) = <<>> THEN "skipped"
    ELSE IF Count(trace, "post") = 0 THEN "skipped"
    ELSE IF trace[Len(trace)] = "ok" THEN "delivered"
    ELSE "delivery_failed"

StatusFor(outcome) ==
    CASE outcome \in {"delivered", "skipped"} -> 200
      [] outcome = "delivery_failed" -> 202
      [] outcome = "internal_error" -> 500

\* C12: a request has no response until it is done and then has exactly the
\* one its outcome determines: 200 when delivered or skipped (heartbeat,
\* empty, duplicate), 202 when delivery failed after the retries, 500 when
\* something raised inside the handler; the retry loop is bounded, so the
\* request reaches its response.
C12_OneResponsePerOutcome ==
    /\ pc # "done" => response = NoResponse
    /\ pc = "done" => /\ response # NoResponse
                      /\ response.status = StatusFor(Outcome)
    /\ pc \in {"post", "backoff"} => attempt < LoopCount(retries)

\* the second request failed after more than one call and got 202
C12_Witness ==
    /\ pc = "done"
    /\ Outcome = "delivery_failed"
    /\ NetCalls(trace) >= 2
    /\ response.status = 202
    /\ nreq = 1
    /\ asked = {}

\* the endpoint answered ok to some call of the request
Succeeded == Count(trace, "ok") > 0

\* retries as send_telegram_message computes it for this request
Budget == TG_RETRIES + (IF InWarmup THEN 1 ELSE 0)

\* position among the endpoint calls of the call that was answered ok
OkCall ==
    LET i == CHOOSE j \in 1..Len(trace) : trace[j] = "ok"
    IN NetCalls(SubSeq(trace, 1, i))

\* C19 as stated: a call that succeeds on attempt k returns at once with
\* ok = true and attempt = k, the number of endpoint calls made, where
\* 1 <= k <= retry_budget + 1; no call and no sleep follows.
C19_AsStated ==
    Succeeded =>
        /\ pc = "done"
        /\ trace[Len(trace)] = "ok"
        /\ response.kind = "delivered"
        /\ response.attempts = OkCall
        /\ response.attempts = NetCalls(trace)
        /\ 1 <= OkCall /\ OkCall <= Budget + 1

\* C19 amended: as stated, with the upper limit max(1, retry_budget + 1):
\* the ok answer is the last entry of the trace and the request is done with
\* status 200, attempt is the number of endpoint calls made, every earlier
\* call failed and was followed by one sleep.
C19_SuccessReturnsAtOnce ==
    Succeeded =>
        /\ pc = "done"
        /\ trace[Len(trace)] = "ok"
        /\ Count(trace, "ok") = 1
        /\ response.kind = "delivered"
        /\ response.status = 200
        /\ response.attempts = OkCall
        /\ response.attempts = NetCalls(trace)
        /\ Count(trace, "sleep") = OkCall - 1
        /\ 1 <= OkCall /\ OkCall <= Max2(1, Budget + 1)

\* the second call succeeded, after one failure and one sleep
C19_Witness ==
    /\ Succeeded
    /\ pc = "done"
    /\ OkCall = 2
    /\ Count(trace, "sleep") = 1
    /\ response.attempts = 2

\* C20: for every TG_RETRIES, negative ones included, the attempts reported
\* when every call failed is the number of endpoint calls made, and that
\* number is at least 1.
C20_AttemptsAreCalls ==
    AllFailed =>
        /\ NetCalls(trace) >= 1
        /\ response.attempts = NetCalls(trace)

\* the current request is delivering or has tried to: _dedup_allows said yes
Allowed ==
    \/ pc \in {"post", "backoff"}
    \/ pc = "done" /\ response.kind \in {"delivered", "failed"}

\* the last request for this text that was allowed ended in delivery failure
\* and the current one called _dedup_allows inside the window of that call
InsideFailedReservation ==
    /\ Deduped
    /\ clean_body \in hist.failed
    /\ dedup_now - hist.allowed_at[clean_body] <= DEDUP_WINDOW_SEC

\* C15 as stated: the entry for T is in _dedup from before the first attempt
\* and stays when delivery fails, and every request for T inside the window
\* of a reservation whose delivery failed is suppressed without an endpoint
\* call.
C15_AsStated ==
    /\ Allowed => /\ HasKey(_dedup, _hash_text(clean_body))
                  /\ GetKey(_dedup, _hash_text(clean_body)) = dedup_now
    /\ InsideFailedReservation =>
          /\ response.kind = "dedup_window"
          /\ Count(trace, "post") = 0

\* C15 amended: as stated, for requests since whose reservation no call of
\* _dedup_allows, the current one included, found more than DEDUP_MAX_KEYS
\* entries in the dict.
C15_ReservationSurvivesFailure ==
    /\ Allowed => /\ HasKey(_dedup, _hash_text(clean_body))
                  /\ GetKey(_dedup, _hash_text(clean_body)) = dedup_now
    /\ (/\ InsideFailedReservation
        /\ clean_body \notin hist.overflowed
        /\ Len(snap.dedup) <= DEDUP_MAX_KEYS) =>
          /\ response.kind = "dedup_window"
          /\ Count(trace, "post") = 0
          /\ response.status = 200

\* a repeat that came after the backoff sleeps of the failed request, still
\* inside the window, was suppressed
C15_Witness ==
    /\ InsideFailedReservation
    /\ clean_body \notin hist.overflowed
    /\ Len(snap.dedup) <= DEDUP_MAX_KEYS
    /\ dedup_now > hist.allowed_at[clean_body]
    /\ response.kind = "dedup_window"

\* C17: a call of _dedup_allows that suppresses a text leaves the timestamp
\* of its entry as it was, the time of the last allowed call for that text;
\* so when all requests carry one text, a request is suppressed exactly when
\* it comes no later than DEDUP_WINDOW_SEC after the last allowed one,
\* however many repeats came in between.
C17_SuppressedKeepsTimestamp ==
    Deduped =>
        LET h == _hash_text(clean_body)
            suppressed == response.kind = "dedup_window"
        IN /\ suppressed =>
                /\ HasKey(snap.dedup, h)
                /\ HasKey(_dedup, h)
                /\ GetKey(_dedup, h) = GetKey(snap.dedup, h)
                /\ clean_body \in DOMAIN hist.allowed_at
                /\ GetKey(_dedup, h) = hist.allowed_at[clean_body]
           /\ asked \subseteq {clean_body} =>
                (suppressed <=>
                    /\ clean_body \in DOMAIN hist.allowed_at
                    /\ dedup_now - hist.allowed_at[clean_body]
                          <= DEDUP_WINDOW_SEC)

\* the third request of one text is allowed again one window after the
\* first, the second one having been a suppressed repeat
C17_Witness ==
    /\ Deduped
    /\ nreq = 2
    /\ asked = {clean_body}
    /\ hist.allowed_at[clean_body] = 0
    /\ dedup_now = DEDUP_WINDOW_SEC + 1
    /\ response.kind # "dedup_window"

\* entries of d still inside the window at time t
Live(d, t) == {i \in 1..Len(d) : t - d[i].ts <= DEDUP_WINDOW_SEC}

\* C16: a call of _dedup_allows that finds no more entries inside the window
\* than DEDUP_MAX_KEYS evicts none of them: the cap applies to what is left
\* after the entries older than the window are gone.
C16_CapAppliesToLiveEntries ==
    pout.done =>
        LET before == pout.val.before
            live == Live(before, pout.val.t)
        IN Cardinality(live) <= pin =>
              \A i \in live : HasKey(_dedup, before[i].h)

\* C18: after any sequence of calls of _dedup_allows by one worker the dict
\* has at most one entry per fingerprint, none older than DEDUP_WINDOW_SEC at
\* the time of the last call, and at most DEDUP_MAX_KEYS + 1 entries.
C18_DictInvariants ==
    /\ \A i, j \in 1..Len(_dedup) : _dedup[i].h = _dedup[j].h => i = j
    /\ Len(_dedup) <= pin + 1
    /\ pout.done => \A i \in 1..Len(_dedup) :
                       pout.val.t - _dedup[i].ts <= DEDUP_WINDOW_SEC

\* a call that found the dict over the cap with an entry older than the
\* window in it left the dict at DEDUP_MAX_KEYS + 1 entries
C18_Witness ==
    /\ pout.done
    /\ pin >= 2
    /\ Len(pout.val.before) > pin
    /\ Live(pout.val.before, pout.val.t) # 1..Len(pout.val.before)
    /\ Len(_dedup) = pin + 1

\* C13: of two workers that called _dedup_allows with one text at times no
\* more than DEDUP_WINDOW_SEC apart, at most one was told to send.
C13_AtMostOneAllowed ==
    \A w1, w2 \in Workers :
        (/\ w1 # w2
         /\ workers[w1].op = "dedup" /\ workers[w2].op = "dedup"
         /\ workers[w1].arg = workers[w2].arg
         /\ workers[w1].t <= workers[w2].t
         /\ workers[w2].t - workers[w1].t <= DEDUP_WINDOW_SEC) =>
            ~(workers[w1].ret = "True" /\ workers[w2].ret = "True")

\* append_log_row calls that have returned and wrote to path
Appended(path) ==
    {w \in Workers : /\ workers[w].op = "append"
                     /\ workers[w].pc = "done"
                     /\ _get_csv_path(UtcDate(workers[w].t)) = path}

\* a row of a log file is the header (told by its last column)
IsHeader(row) == row[Len(LOG_FIELDS)] = LOG_FIELDS[Len(LOG_FIELDS)]

\* C14: once the workers that append to a file that did not exist have all
\* returned, the file is the header followed by one row for each call.
C14_HeaderOnceRowPerCall ==
    (\A w \in Workers : workers[w].pc \in {"idle", "done"}) =>
        \A path \in DOMAIN files :
            /\ IsHeader(files[path][1])
            /\ \A i \in 2..Len(files[path]) : ~IsHeader(files[path][i])
            /\ Len(files[path]) = 1 + Cardinality(Appended(path))

====
